---- MODULE Spec2Model ----
(***************************************************************************)
(* A model of analyze.py: the yearly training report of a workout log.     *)
(*                                                                         *)
(* One run is one call of one of the program's three entry points: the     *)
(* main block, create_comprehensive_report(exercise_mappings, year) or     *)
(* analyze_exercises(exercise_mappings, year).  The state is the input     *)
(* file data/strong.csv, the arguments of the call, the locals of          *)
(* analyze_exercises, the figure being drawn, the output directory and     *)
(* image, what was printed, and the exception in flight.                   *)
(*                                                                         *)
(* A call into pandas or matplotlib raises where the data of the run       *)
(* decides it (a missing or unreadable file, a missing column, a missing   *)
(* key, zero training days) and where the file system may refuse a write;  *)
(* elsewhere the library calls are taken to return.  What matplotlib does  *)
(* with the values handed to it is not part of the model.                  *)
(***************************************************************************)
EXTENDS Integers, Sequences, FiniteSets

VARIABLES
    csv,                \* data/strong.csv: [status, rows]
    call,               \* the entry point this run calls
    exercise_mappings,  \* the dict: a sequence of [main, alts], keys distinct
    year,               \* create_comprehensive_report's year parameter
    ayear,              \* analyze_exercises' year parameter
    pc,                 \* the statement the run is at
    df,                 \* analyze_exercises' df, the year's rows
    gi,                 \* position of the for loop over exercise_mappings.items()
    all_stats,          \* analyze_exercises' all_stats
    all_dfs,            \* analyze_exercises' all_dfs
    fig,                \* what has been drawn on the figure
    outdir,             \* os.makedirs('output') was done in this run
    artifact,           \* output/training_report.png was written in this run
    stdout,             \* the lines printed
    exc,                \* the class of the exception raised, or "none"
    exit_status         \* the interpreter's exit status, -1 while running

vars == <<csv, call, exercise_mappings, year, ayear, pc, df, gi, all_stats,
          all_dfs, fig, outdir, artifact, stdout, exc, exit_status>>

(***************************************************************************)
(* Bounds and input universe.                                              *)
(***************************************************************************)
MaxLog == 2

DefaultReportYear == 2024
DefaultAnalyzeYear == 2024

Years == {2023, 2024}

\* Timestamps of the Date column: calendar year, day of the year, hour.
Dates == { [year |-> 2023, day |-> 1, hour |-> 9],
           [year |-> 2024, day |-> 1, hour |-> 9],
           [year |-> 2024, day |-> 1, hour |-> 18],
           [year |-> 2024, day |-> 8, hour |-> 9] }

ExerciseNames == { "Squat (Barbell)", "Deadlift (Barbell)",
                   "Deadlift Old Data ", "Deadlift Old Data" }

\* (Weight, Reps) of a row.
Loads == { <<100, 5>>, <<105, 3>> }

Rows == { [name |-> n, date |-> d, weight |-> l[1], reps |-> l[2]] :
            n \in ExerciseNames, d \in Dates, l \in Loads }

Logs == UNION { [1..k -> Rows] : k \in 0..MaxLog }

\* The main block's dict with the alias names typed without their trailing
\* space.
MainMappingsTrimmed ==
    << [main |-> "Squat (Barbell)", alts |-> {"Squat (Barbell)"}],
       [main |-> "Deadlift (Barbell)",
        alts |-> {"Deadlift (Barbell)", "Deadlift Old Data"}],
       [main |-> "Bench Press (Barbell)",
        alts |-> {"Bench Press (Barbell)", "Bench press Backup"}] >>

\* The dict the main block builds.
MainMappings ==
    << [main |-> "Squat (Barbell)", alts |-> {"Squat (Barbell)"}],
       [main |-> "Deadlift (Barbell)",
        alts |-> {"Deadlift (Barbell)", "Deadlift Old Data "}],
       [main |-> "Bench Press (Barbell)",
        alts |-> {"Bench Press (Barbell)", "Bench press Backup "}] >>

\* A dict a caller may pass whose alias lists share names.
SharedMappings ==
    << [main |-> "Squat (Barbell)", alts |-> {"Squat (Barbell)"}],
       [main |-> "Deadlift (Barbell)",
        alts |-> {"Deadlift (Barbell)", "Deadlift Old Data "}],
       [main |-> "Pulls",
        alts |-> {"Deadlift (Barbell)", "Deadlift Old Data"}] >>

Mappings == { MainMappings, SharedMappings }

(***************************************************************************)
(* Pure helpers of the pandas expressions in analyze_exercises.            *)
(***************************************************************************)
RECURSIVE SelectSeq2(_, _)
\* The rows of s, in order, that satisfy Keep (a set of rows).
SelectSeq2(s, Keep) ==
    IF s = <<>> THEN <<>>
    ELSE IF Head(s) \in Keep THEN <<Head(s)>> \o SelectSeq2(Tail(s), Keep)
         ELSE SelectSeq2(Tail(s), Keep)

Range(s) == { s[i] : i \in DOMAIN s }

\* df[df['Date'].dt.year == y]
FilterYear(rows, y) ==
    SelectSeq2(rows, { r \in Range(rows) : r.date.year = y })

\* The selection without the isin filter.
SelectAny(rows, alt_names) == rows

\* df[df['Exercise Name'].isin(alt_names)]
SelectAliases(rows, alt_names) ==
    SelectSeq2(rows, { r \in Range(rows) : r.name \in alt_names })

\* Timestamp order of the Date column.
DateLeq(a, b) ==
    \/ a.year < b.year
    \/ a.year = b.year /\ a.day < b.day
    \/ a.year = b.year /\ a.day = b.day /\ a.hour <= b.hour

RECURSIVE InsertByDate(_, _)
InsertByDate(r, s) ==
    IF s = <<>> THEN <<r>>
    ELSE IF DateLeq(Head(s).date, r.date)
         THEN <<Head(s)>> \o InsertByDate(r, Tail(s))
         ELSE <<r>> \o s

RECURSIVE SortByDate(_)
\* exercise_df.sort_values('Date'); rows of equal Date keep their order here.
SortByDate(s) ==
    IF s = <<>> THEN <<>>
    ELSE InsertByDate(s[Len(s)], SortByDate(SubSeq(s, 1, Len(s) - 1)))

\* Weight and Reps added instead of multiplied.
VolumeAdded(r) == r.weight + r.reps

\* exercise_df['Weight'] * exercise_df['Reps'], one row
Volume(r) == r.weight * r.reps

RECURSIVE SumVolume(_)
SumVolume(s) == IF s = <<>> THEN 0 ELSE Volume(Head(s)) + SumVolume(Tail(s))

RECURSIVE SumReps(_)
SumReps(s) == IF s = <<>> THEN 0 ELSE Head(s).reps + SumReps(Tail(s))

RECURSIVE SumWeight(_)
SumWeight(s) == IF s = <<>> THEN 0 ELSE Head(s).weight + SumWeight(Tail(s))

MaxWeight(s) ==
    CHOOSE w \in { r.weight : r \in Range(s) } :
        \A r \in Range(s) : r.weight <= w

\* nunique() taken on the timestamps, without .dt.date.
FullTimestamp(d) == <<d.year, d.day, d.hour>>

\* .dt.date of a timestamp: the calendar date, the hour dropped.
CalendarDate(d) == <<d.year, d.day>>

\* exercise_df['Date'].dt.date.nunique()
UniqueDays(s) == Cardinality({ CalendarDate(r.date) : r \in Range(s) })

\* The stats dict with total_sets counted per session instead of per row.
GroupStatsPerSession(s) ==
    [ total_volume  |-> SumVolume(s),
      total_sets    |-> UniqueDays(s),
      total_reps    |-> SumReps(s),
      avg_weight    |-> <<SumWeight(s), Len(s)>>,
      max_weight    |-> MaxWeight(s),
      training_days |-> UniqueDays(s) ]

\* The stats dict of one group, from its sorted non-empty selection.
GroupStats(s) ==
    [ total_volume  |-> SumVolume(s),
      total_sets    |-> Len(s),
      total_reps    |-> SumReps(s),
      avg_weight    |-> <<SumWeight(s), Len(s)>>,   \* the mean, as a fraction
      max_weight    |-> MaxWeight(s),
      training_days |-> UniqueDays(s) ]

\* d[k] = v on a dict modelled as a function
Put(d, k, v) == [ x \in (DOMAIN d) \cup {k} |-> IF x = k THEN v ELSE d[x] ]

EmptyDict == [ x \in {} |-> 0 ]

\* ex.replace(" (Barbell)", "") on the keys the model uses
Label(ex) ==
    CASE ex = "Squat (Barbell)" -> "Squat"
      [] ex = "Deadlift (Barbell)" -> "Deadlift"
      [] ex = "Bench Press (Barbell)" -> "Bench Press"
      [] OTHER -> ex

\* list(exercise_mappings.keys())
Keys(m) == [ i \in 1..Len(m) |-> m[i].main ]

RECURSIVE KeepIn(_, _)
KeepIn(exercises, d) ==
    IF exercises = <<>> THEN <<>>
    ELSE IF Head(exercises) \in DOMAIN d
         THEN <<Head(exercises)>> \o KeepIn(Tail(exercises), d)
         ELSE KeepIn(Tail(exercises), d)

\* A panel that draws every group of the mapping, without the "in" test.
ShownAll(exercises, d) == exercises

\* The groups a panel draws: "for ex in exercises if ex in stats".
Shown(exercises, d) == KeepIn(exercises, d)

NoFigure == [ made |-> FALSE ]

NewFigure(y) ==
    [ made |-> TRUE, title |-> y, table |-> <<>>, days |-> <<>>,
      sets |-> <<>>, volume |-> <<>>, progress |-> <<>> ]

(***************************************************************************)
(* Initial states: the file on disk and the call that is made.             *)
(***************************************************************************)
CsvFiles ==
    { [status |-> s, rows |-> <<>>] : s \in {"absent", "unreadable", "no_date"} }
    \cup { [status |-> s, rows |-> l] : s \in {"ok", "no_weight"}, l \in Logs }

Init ==
    /\ csv \in CsvFiles
    /\ call \in {"main", "report", "analyze"}
    /\ \/ /\ call = "main"
          /\ exercise_mappings = <<>>
          /\ year = 0
          /\ ayear = 0
          /\ pc = "main"
       \/ /\ call = "report"
          /\ exercise_mappings \in Mappings
          /\ year \in Years
          /\ ayear = 0
          /\ pc = "report"
       \/ /\ call = "analyze"
          /\ exercise_mappings \in Mappings
          /\ year = 0
          /\ ayear \in Years
          /\ pc = "analyze"
    /\ df = <<>>
    /\ gi = 0
    /\ all_stats = EmptyDict
    /\ all_dfs = EmptyDict
    /\ fig = NoFigure
    /\ outdir = FALSE
    /\ artifact = FALSE
    /\ stdout = <<>>
    /\ exc = "none"
    /\ exit_status = -1

(***************************************************************************)
(* Exceptions.                                                             *)
(***************************************************************************)
\* An exception that is recorded while the report goes on to draw.
RaiseAndGoOn(e) ==
    /\ exc' = e
    /\ pc' = "figure"

\* An exception raised inside analyze_exercises or the drawing code leaves
\* every enclosing function: nothing between the raise and the main block's
\* except clauses runs.
Raise(e) ==
    /\ exc' = e
    /\ pc' = "raised"

(***************************************************************************)
(* The main block, lines 206-214.                                          *)
(***************************************************************************)
Main ==
    /\ pc = "main"
    /\ exercise_mappings' = MainMappings
    /\ year' = DefaultReportYear
    /\ pc' = "report"
    /\ UNCHANGED <<csv, call, ayear, df, gi, all_stats, all_dfs, fig, outdir,
                   artifact, stdout, exc, exit_status>>

(***************************************************************************)
(* create_comprehensive_report, line 12: the call of analyze_exercises.    *)
(***************************************************************************)
\* The year analyze_exercises runs with when called from the report with
\* the report's year y: the call passes exercise_mappings only.
YearPassed(y) == DefaultAnalyzeYear

CallAnalyze ==
    /\ pc = "report"
    /\ ayear' = YearPassed(year)
    /\ pc' = "analyze"
    /\ UNCHANGED <<csv, call, exercise_mappings, year, df, gi, all_stats,
                   all_dfs, fig, outdir, artifact, stdout, exc, exit_status>>

(***************************************************************************)
(* analyze_exercises, lines 174-179.                                       *)
(***************************************************************************)
ReadCsv ==
    /\ pc = "analyze"
    /\ IF csv.status = "absent"
         THEN Raise("FileNotFoundError") /\ UNCHANGED <<df, gi>>
       ELSE IF csv.status = "unreadable"
         THEN Raise("PermissionError") /\ UNCHANGED <<df, gi>>
       ELSE IF csv.status = "no_date"
         THEN Raise("KeyError:Date") /\ UNCHANGED <<df, gi>>
       ELSE /\ df' = FilterYear(csv.rows, ayear)
            /\ gi' = 1
            /\ pc' = "loop"
            /\ exc' = exc
    /\ UNCHANGED <<csv, call, exercise_mappings, year, ayear, all_stats,
                   all_dfs, fig, outdir, artifact, stdout, exit_status>>

(***************************************************************************)
(* analyze_exercises, lines 181-202: one iteration of the loop.            *)
(***************************************************************************)
\* "if len(exercise_df) == 0: continue"
Skipped(exercise_df) == Len(exercise_df) = 0

Group ==
    /\ pc = "loop"
    /\ gi <= Len(exercise_mappings)
    /\ LET main_exercise == exercise_mappings[gi].main
           alt_names == exercise_mappings[gi].alts
           exercise_df == SelectAliases(df, alt_names)
       IN  IF Skipped(exercise_df)
             THEN /\ gi' = gi + 1
                  /\ UNCHANGED <<all_stats, all_dfs, pc, exc>>
           ELSE IF csv.status = "no_weight"
             THEN Raise("KeyError:Weight") /\ UNCHANGED <<all_stats, all_dfs, gi>>
           ELSE LET sorted == SortByDate(exercise_df)
                IN  /\ all_stats' = Put(all_stats, main_exercise, GroupStats(sorted))
                    /\ all_dfs' = Put(all_dfs, main_exercise, sorted)
                    /\ gi' = gi + 1
                    /\ UNCHANGED <<pc, exc>>
    /\ UNCHANGED <<csv, call, exercise_mappings, year, ayear, df, fig, outdir,
                   artifact, stdout, exit_status>>

\* line 204
Return ==
    /\ pc = "loop"
    /\ gi > Len(exercise_mappings)
    /\ pc' = IF call = "analyze" THEN "returned" ELSE "figure"
    /\ UNCHANGED <<csv, call, exercise_mappings, year, ayear, df, gi, all_stats,
                   all_dfs, fig, outdir, artifact, stdout, exc, exit_status>>

(***************************************************************************)
(* create_comprehensive_report, lines 13-44, and the panels it calls.      *)
(***************************************************************************)
\* stats[ex] for an ex that is no key of stats raises KeyError.
MissingKey(groups, d) == \E i \in DOMAIN groups : groups[i] \notin DOMAIN d

\* s['total_sets'] / s['training_days'] raises ZeroDivisionError on 0 days.
ZeroDays(groups, stats) ==
    \E i \in DOMAIN groups : stats[groups[i]].training_days = 0

\* lines 15-19: the figure and its title
Figure ==
    /\ pc = "figure"
    /\ fig' = NewFigure(year)
    /\ pc' = "table"
    /\ UNCHANGED <<csv, call, exercise_mappings, year, ayear, df, gi, all_stats,
                   all_dfs, outdir, artifact, stdout, exc, exit_status>>

TableRow(ex, s) ==
    [ name |-> Label(ex),
      training_days |-> s.training_days,
      total_sets |-> s.total_sets,
      sets_per_day |-> <<s.total_sets, s.training_days>>,   \* the quotient
      total_reps |-> s.total_reps,
      total_volume |-> s.total_volume,
      avg_weight |-> s.avg_weight,
      max_weight |-> s.max_weight ]

\* lines 22-23 and create_detailed_stats_table
Table ==
    /\ pc = "table"
    /\ LET groups == Shown(Keys(exercise_mappings), all_stats)
       IN  IF MissingKey(groups, all_stats)
             THEN Raise("KeyError:stats") /\ UNCHANGED fig
           ELSE IF ZeroDays(groups, all_stats)
             THEN Raise("ZeroDivisionError") /\ UNCHANGED fig
           ELSE /\ fig' = [fig EXCEPT !.table =
                            [ i \in DOMAIN groups |->
                                TableRow(groups[i], all_stats[groups[i]]) ]]
                /\ pc' = "days_plot"
                /\ exc' = exc
    /\ UNCHANGED <<csv, call, exercise_mappings, year, ayear, df, gi, all_stats,
                   all_dfs, outdir, artifact, stdout, exit_status>>

\* lines 26-27 and create_training_days_plot
DaysPlot ==
    /\ pc = "days_plot"
    /\ LET groups == Shown(Keys(exercise_mappings), all_stats)
       IN  IF MissingKey(groups, all_stats)
             THEN Raise("KeyError:stats") /\ UNCHANGED fig
           ELSE /\ fig' = [fig EXCEPT !.days =
                            [ i \in DOMAIN groups |->
                                [ label |-> Label(groups[i]),
                                  value |-> all_stats[groups[i]].training_days ] ]]
                /\ pc' = "sets_plot"
                /\ exc' = exc
    /\ UNCHANGED <<csv, call, exercise_mappings, year, ayear, df, gi, all_stats,
                   all_dfs, outdir, artifact, stdout, exit_status>>

\* lines 30-31 and create_sets_per_session_plot
SetsPlot ==
    /\ pc = "sets_plot"
    /\ LET groups == Shown(Keys(exercise_mappings), all_stats)
       IN  IF MissingKey(groups, all_stats)
             THEN Raise("KeyError:stats") /\ UNCHANGED fig
           ELSE IF ZeroDays(groups, all_stats)
             THEN Raise("ZeroDivisionError") /\ UNCHANGED fig
           ELSE /\ fig' = [fig EXCEPT !.sets =
                            [ i \in DOMAIN groups |->
                                [ label |-> Label(groups[i]),
                                  value |-> << all_stats[groups[i]].total_sets,
                                               all_stats[groups[i]].training_days >> ] ]]
                /\ pc' = "volume_plot"
                /\ exc' = exc
    /\ UNCHANGED <<csv, call, exercise_mappings, year, ayear, df, gi, all_stats,
                   all_dfs, outdir, artifact, stdout, exit_status>>

\* lines 34-35 and create_volume_plot
VolumePlot ==
    /\ pc = "volume_plot"
    /\ LET groups == Shown(Keys(exercise_mappings), all_stats)
       IN  IF MissingKey(groups, all_stats)
             THEN Raise("KeyError:stats") /\ UNCHANGED fig
           ELSE /\ fig' = [fig EXCEPT !.volume =
                            [ i \in DOMAIN groups |->
                                [ label |-> Label(groups[i]),
                                  value |-> all_stats[groups[i]].total_volume ] ]]
                /\ pc' = "progress_plot"
                /\ exc' = exc
    /\ UNCHANGED <<csv, call, exercise_mappings, year, ayear, df, gi, all_stats,
                   all_dfs, outdir, artifact, stdout, exit_status>>

\* df['Date'], df['Weight'] of a group's frame: the points of the scatter
Points(s) == [ i \in DOMAIN s |-> <<s[i].date, s[i].weight>> ]

\* lines 38-39 and create_weight_progression_plot ("if exercise not in dfs:
\* continue"); the fitted line is drawn through the same dates.
ProgressPlot ==
    /\ pc = "progress_plot"
    /\ LET groups == Shown(Keys(exercise_mappings), all_dfs)
       IN  IF MissingKey(groups, all_dfs)
             THEN Raise("KeyError:dfs") /\ UNCHANGED fig
           ELSE /\ fig' = [fig EXCEPT !.progress =
                            [ i \in DOMAIN groups |->
                                [ label |-> Label(groups[i]),
                                  points |-> Points(all_dfs[groups[i]]) ] ]]
                /\ pc' = "makedirs"
                /\ exc' = exc
    /\ UNCHANGED <<csv, call, exercise_mappings, year, ayear, df, gi, all_stats,
                   all_dfs, outdir, artifact, stdout, exit_status>>

\* lines 41-42
MakeDirs ==
    /\ pc = "makedirs"
    /\ outdir' = TRUE
    /\ pc' = "savefig"
    /\ UNCHANGED <<csv, call, exercise_mappings, year, ayear, df, gi, all_stats,
                   all_dfs, fig, artifact, stdout, exc, exit_status>>

\* lines 43-44
SaveFig ==
    /\ pc = "savefig"
    /\ artifact' = TRUE
    /\ pc' = "report_returned"
    /\ UNCHANGED <<csv, call, exercise_mappings, year, ayear, df, gi, all_stats,
                   all_dfs, fig, outdir, stdout, exc, exit_status>>

\* lines 42-43 when the file system refuses the directory or the file
OutputFail ==
    /\ pc \in {"makedirs", "savefig"}
    /\ Raise("OSError")
    /\ UNCHANGED <<csv, call, exercise_mappings, year, ayear, df, gi, all_stats,
                   all_dfs, fig, outdir, artifact, stdout, exit_status>>

(***************************************************************************)
(* The main block, lines 215-220, and the end of the script.               *)
(***************************************************************************)
SuccessMessage ==
    [ text |-> "Report has been generated and saved as 'output/training_report.png'",
      detail |-> "none" ]

NotFoundMessage ==
    [ text |-> "Error: Could not find 'data/strong.csv'. Please check the file path.",
      detail |-> "none" ]

\* f"An error occurred: {str(e)}"
ErrorMessage(e) == [ text |-> "An error occurred: ", detail |-> e ]

\* The except clauses, in order: FileNotFoundError, then Exception.
Handle(e) ==
    IF e = "FileNotFoundError" THEN NotFoundMessage ELSE ErrorMessage(e)

\* line 215
PrintSuccess ==
    /\ call = "main"
    /\ pc = "report_returned"
    /\ stdout' = Append(stdout, SuccessMessage)
    /\ pc' = "main_end"
    /\ UNCHANGED <<csv, call, exercise_mappings, year, ayear, df, gi, all_stats,
                   all_dfs, fig, outdir, artifact, exc, exit_status>>

\* lines 217-220
Except ==
    /\ call = "main"
    /\ pc = "raised"
    /\ stdout' = Append(stdout, Handle(exc))
    /\ pc' = "main_end"
    /\ UNCHANGED <<csv, call, exercise_mappings, year, ayear, df, gi, all_stats,
                   all_dfs, fig, outdir, artifact, exc, exit_status>>

\* The status the interpreter ends with after the last statement of the
\* script: no exception is left unhandled and sys.exit is never called.
EndStatus(messages) == 0

Exit ==
    /\ pc = "main_end"
    /\ exit_status' = EndStatus(stdout)
    /\ pc' = "exited"
    /\ UNCHANGED <<csv, call, exercise_mappings, year, ayear, df, gi, all_stats,
                   all_dfs, fig, outdir, artifact, stdout, exc>>

Next ==
    \/ Main
    \/ CallAnalyze
    \/ ReadCsv
    \/ Group
    \/ Return
    \/ Figure
    \/ Table
    \/ DaysPlot
    \/ SetsPlot
    \/ VolumePlot
    \/ ProgressPlot
    \/ MakeDirs
    \/ SaveFig
    \/ OutputFail
    \/ PrintSuccess
    \/ Except
    \/ Exit

Spec == Init /\ [][Next]_vars

(***************************************************************************)
(* What the properties below are stated in: the rows of the file, counted  *)
(* directly, not through the operators of the model above.                 *)
(***************************************************************************)
\* The loop of analyze_exercises has run over every group.
Aggregated == gi = Len(exercise_mappings) + 1

\* The year the caller of this run asked for.
TargetYear == IF call = "analyze" THEN ayear ELSE year

\* Positions in the file of the rows named in alts and dated in year y.
MatchIdx(alts, y) ==
    { i \in DOMAIN csv.rows :
        csv.rows[i].name \in alts /\ csv.rows[i].date.year = y }

RECURSIVE RepsAt(_)
RepsAt(S) ==
    IF S = {} THEN 0
    ELSE LET i == CHOOSE j \in S : TRUE
         IN  csv.rows[i].reps + RepsAt(S \ {i})

RECURSIVE LoadAt(_)
LoadAt(S) ==
    IF S = {} THEN 0
    ELSE LET i == CHOOSE j \in S : TRUE
         IN  csv.rows[i].weight * csv.rows[i].reps + LoadAt(S \ {i})

Groups == 1..Len(exercise_mappings)

AliasesOf(g) ==
    UNION { exercise_mappings[i].alts :
              i \in { j \in Groups : exercise_mappings[j].main = g } }

\* Group g's outputs hold every row of the file named n and dated in year y.
Contributes(g, n, y) ==
    LET k == Cardinality(MatchIdx({n}, y))
    IN  k > 0 =>
          /\ g \in DOMAIN all_stats
          /\ g \in DOMAIN all_dfs
          /\ Cardinality({ j \in DOMAIN all_dfs[g] : all_dfs[g][j].name = n }) = k

RECURSIVE SetsIn(_)
\* total_sets summed over the groups S of all_stats
SetsIn(S) ==
    IF S = {} THEN 0
    ELSE LET g == CHOOSE h \in S : TRUE
         IN  all_stats[g].total_sets + SetsIn(S \ {g})

DisjointAliases ==
    \A i, j \in Groups :
        i # j => exercise_mappings[i].alts \cap exercise_mappings[j].alts = {}

(***************************************************************************)
(* C1.  No row dated outside the year the caller asked for is in any       *)
(* group's series or counted in its stats, and the year in the report's    *)
(* title is the year the rows were filtered by.                            *)
(***************************************************************************)
C1_OnlyTargetYearRows ==
    /\ \A g \in DOMAIN all_dfs :
         \A j \in DOMAIN all_dfs[g] : all_dfs[g][j].date.year = TargetYear
    /\ \A g \in DOMAIN all_stats :
         all_stats[g].total_sets = Cardinality(MatchIdx(AliasesOf(g), TargetYear))
    /\ fig.made => fig.title = ayear

(***************************************************************************)
(* C2.  Run from the main block, the rows named "Deadlift (Barbell)" and   *)
(* the rows named "Deadlift Old Data" of the target year are all in the    *)
(* "Deadlift (Barbell)" group.                                             *)
(***************************************************************************)
C2_OldDataMerged ==
    (call = "main" /\ Aggregated) =>
        /\ Contributes("Deadlift (Barbell)", "Deadlift (Barbell)", TargetYear)
        /\ Contributes("Deadlift (Barbell)", "Deadlift Old Data", TargetYear)

(***************************************************************************)
(* C2, amended.  Run from the main block, the rows named "Deadlift         *)
(* (Barbell)" and the rows named "Deadlift Old Data " (with the trailing   *)
(* space of the alias list) of the target year are all in the "Deadlift    *)
(* (Barbell)" group, each counted once in total_sets and its reps in       *)
(* total_reps.                                                             *)
(***************************************************************************)
C2_OldDataMergedExactName ==
    (call = "main" /\ Aggregated) =>
        LET S == MatchIdx({"Deadlift (Barbell)", "Deadlift Old Data "}, TargetYear)
        IN  /\ Contributes("Deadlift (Barbell)", "Deadlift (Barbell)", TargetYear)
            /\ Contributes("Deadlift (Barbell)", "Deadlift Old Data ", TargetYear)
            /\ S # {} =>
                 /\ all_stats["Deadlift (Barbell)"].total_sets = Cardinality(S)
                 /\ all_stats["Deadlift (Barbell)"].total_reps = RepsAt(S)

C2_Witness ==
    /\ call = "main"
    /\ Aggregated
    /\ MatchIdx({"Deadlift (Barbell)"}, TargetYear) # {}
    /\ MatchIdx({"Deadlift Old Data "}, TargetYear) # {}
    /\ all_stats["Deadlift (Barbell)"].total_sets = 2

(***************************************************************************)
(* C3.  When analyze_exercises has run over every group, each group with   *)
(* at least one matching row has stats, its total_sets is the number of    *)
(* matching rows and its total_reps the sum of their reps.                 *)
(***************************************************************************)
C3_SetsAndReps ==
    Aggregated =>
        \A i \in Groups :
            LET S == MatchIdx(exercise_mappings[i].alts, ayear)
                g == exercise_mappings[i].main
            IN  S # {} =>
                  /\ g \in DOMAIN all_stats
                  /\ all_stats[g].total_sets = Cardinality(S)
                  /\ all_stats[g].total_reps = RepsAt(S)

C3_Witness ==
    /\ Aggregated
    /\ \E i \in Groups :
         /\ Cardinality(MatchIdx(exercise_mappings[i].alts, ayear)) = 2
         /\ all_stats[exercise_mappings[i].main].total_sets = 2
         /\ all_stats[exercise_mappings[i].main].total_reps = 8

(***************************************************************************)
(* C4.  For every group in the stats, total_volume is the sum over the     *)
(* group's matching rows of weight times reps.                             *)
(***************************************************************************)
C4_TotalVolume ==
    \A g \in DOMAIN all_stats :
        all_stats[g].total_volume = LoadAt(MatchIdx(AliasesOf(g), ayear))

C4_Witness ==
    \E g \in DOMAIN all_stats :
        /\ Cardinality(MatchIdx(AliasesOf(g), ayear)) = 2
        /\ all_stats[g].total_volume = 815

(***************************************************************************)
(* C5.  A group with no matching row in the target year is a key of        *)
(* neither all_stats nor all_dfs, the table and the panels have no entry   *)
(* for it, and no lookup of a missing group or division by zero days is    *)
(* ever raised.                                                            *)
(***************************************************************************)
PanelLabels ==
    IF fig.made
      THEN { fig.table[i].name : i \in DOMAIN fig.table }
             \cup { fig.days[i].label : i \in DOMAIN fig.days }
             \cup { fig.sets[i].label : i \in DOMAIN fig.sets }
             \cup { fig.volume[i].label : i \in DOMAIN fig.volume }
             \cup { fig.progress[i].label : i \in DOMAIN fig.progress }
      ELSE {}

OneCalendarDate(S) ==
    \A i, j \in S :
        /\ csv.rows[i].date.year = csv.rows[j].date.year
        /\ csv.rows[i].date.day = csv.rows[j].date.day

C6_TrainingDays ==
    \A g \in DOMAIN all_stats :
        /\ all_stats[g].training_days <= all_stats[g].total_sets
        /\ OneCalendarDate(MatchIdx(AliasesOf(g), ayear)) =>
              all_stats[g].training_days = 1

C6_Witness ==
    \E g \in DOMAIN all_stats :
        LET S == MatchIdx(AliasesOf(g), ayear)
        IN  /\ OneCalendarDate(S)
            /\ \E i, j \in S : csv.rows[i].date.hour # csv.rows[j].date.hour
            /\ all_stats[g].total_sets = 2
            /\ all_stats[g].training_days = 1

(***************************************************************************)
(* C7.  A run of the script ends with the "could not find data/strong.csv" *)
(* message exactly when the file is absent or unreadable; every other      *)
(* failure ends with the "An error occurred" message.                      *)
(***************************************************************************)
C7_NotFoundIffUnavailable ==
    pc \in {"main_end", "exited"} =>
        /\ (stdout = <<NotFoundMessage>>) <=> (csv.status \in {"absent", "unreadable"})
        /\ (exc # "none" /\ csv.status \notin {"absent", "unreadable"}) =>
              stdout = <<ErrorMessage(exc)>>

(***************************************************************************)
(* C8.  The success message is printed only when the report returned and   *)
(* the image was written; a run in which an exception was raised prints    *)
(* one message, not the success message, and exits with a status that is   *)
(* not 0.                                                                  *)
(***************************************************************************)
C8_ExitBehaviour ==
    /\ \A i \in DOMAIN stdout :
         stdout[i] = SuccessMessage => (artifact /\ exc = "none")
    /\ pc = "exited" =>
         (exc # "none" =>
            /\ Len(stdout) = 1
            /\ stdout[1] # SuccessMessage
            /\ exit_status # 0)

(***************************************************************************)
(* C9.  The figure, the output directory and the image exist only after    *)
(* the loop has run over every group and stored every non-empty group; a   *)
(* failure of loading or aggregation leaves no figure, directory or image; *)
(* and after an exception no statement of the report runs again.           *)
(***************************************************************************)
C9_RenderAfterAggregation ==
    /\ (fig.made \/ outdir \/ artifact) =>
         /\ Aggregated
         /\ \A i \in Groups :
              MatchIdx(exercise_mappings[i].alts, ayear) # {} =>
                 exercise_mappings[i].main \in DOMAIN all_stats
    /\ exc \in {"FileNotFoundError", "PermissionError", "KeyError:Date",
                "KeyError:Weight"} =>
         (~fig.made /\ ~outdir /\ ~artifact)
    /\ exc # "none" => pc \in {"raised", "main_end", "exited"}

C9_Witness ==
    /\ exc = "KeyError:Weight"
    /\ gi = 2
    /\ pc = "exited"
    /\ ~fig.made /\ ~outdir /\ ~artifact

(***************************************************************************)
(* C10.  Whatever mapping analyze_exercises is given, total_sets summed    *)
(* over the groups is at most the number of rows dated in the target year, *)
(* and no two groups hold rows of the same name.                           *)
(***************************************************************************)
SharedNames ==
    { n \in ExerciseNames :
        \E g, h \in DOMAIN all_dfs :
            /\ g # h
            /\ \E j \in DOMAIN all_dfs[g] : all_dfs[g][j].name = n
            /\ \E j \in DOMAIN all_dfs[h] : all_dfs[h][j].name = n }

C10_AtMostOneGroup ==
    /\ SetsIn(DOMAIN all_stats) <= Cardinality(MatchIdx(ExerciseNames, ayear))
    /\ SharedNames = {}

(***************************************************************************)
(* C10, amended.  When the alias sets of the mapping are pairwise disjoint *)
(* (as in the mapping of the main block), total_sets summed over the       *)
(* groups is at most the number of rows dated in the target year and no    *)
(* two groups hold rows of the same name.                                  *)
(***************************************************************************)
C10_AtMostOneGroupIfDisjoint ==
    DisjointAliases =>
        /\ SetsIn(DOMAIN all_stats) <= Cardinality(MatchIdx(ExerciseNames, ayear))
        /\ SharedNames = {}

C10_Witness ==
    /\ DisjointAliases
    /\ Aggregated
    /\ Cardinality(DOMAIN all_stats) = 2
    /\ SetsIn(DOMAIN all_stats) = Cardinality(MatchIdx(ExerciseNames, ayear))
====
